---- MODULE Spec2Model ----
(***************************************************************************)
(* Model of the vendored Node.js 15.6.0 internals of this repository:      *)
(*   internal/crypto/keys.js  (KeyObject, CryptoKey, encoding negotiation,  *)
(*                             key material preparation)                    *)
(*   internal/abort_controller (src/unnamed/part_000)                       *)
(*                                                                         *)
(* JavaScript values are modelled as strings: "undefined" and "null" are    *)
(* the two nullish values, "number:42" is a value that is neither a string  *)
(* nor a buffer, "buffer:..." is a byte sequence, every other string is a   *)
(* JavaScript string.                                                       *)
(***************************************************************************)
EXTENDS Naturals, Sequences, FiniteSets, TLC

VARIABLES
  pArgs,      \* arguments of the parseKeyEncoding / parseKeyType call under study
  pRet,       \* outcome of parseKeyEncoding(pArgs), or Pending
  tRet,       \* outcome of parseKeyType(pArgs), or Pending
  key,        \* the Key Object that is followed, or NoKey
  last,       \* the last call made on the keys module: its arguments and outcome
  arrays,     \* the JavaScript arrays of usages that exist, by reference (index)
  cryptoKey,  \* the Crypto Key built by the internal constructor, or NoCryptoKey
  built,      \* the arguments cryptoKey was built with
  held,       \* the references the caller got from reads of cryptoKey.usages
  snapshot,   \* what [kClone] returned, or NoSnapshot
  received,   \* the fresh instance after [kDeserialize], or NoCryptoKey
  kAborted,   \* signal[kAborted] of each AbortController's signal
  listeners,  \* the number of 'abort' listeners on each signal
  stack,      \* the dispatches of 'abort' in progress, innermost last
  calls,      \* the abort() calls made on each controller
  dispatched, \* the 'abort' events dispatched on each signal
  seenAtDispatch, \* the aborted flag as each dispatch started
  reentered   \* whether abort() was called on a controller during its own dispatch

parseVars == <<pArgs, pRet, tRet>>
keyVars == <<key, last>>
cryptoVars == <<arrays, cryptoKey, built, held, snapshot, received>>
abortVars == <<kAborted, listeners, stack, calls, dispatched, seenAtDispatch, reentered>>
vars == <<parseVars, keyVars, cryptoVars, abortVars>>

----------------------------------------------------------------------------
(* JavaScript values *)

Undef == "undefined"
Null == "null"
NumberVal == "number:42"
True == "true"
False == "false"

isNullish(v) == v \in {Undef, Null}

isBuffer(v) == v \in {"buffer:", "buffer:pw", "buffer:hex:pw", "buffer:pem"}

isString(v) == ~isNullish(v) /\ v # NumberVal /\ ~isBuffer(v)

\* JavaScript truthiness of the values above (the empty string is falsy).
Truthy(v) == ~isNullish(v) /\ v # ""

----------------------------------------------------------------------------
(* Constants of internalBinding('crypto') and error codes *)

kKeyTypeSecret == "secret"
kKeyTypePublic == "public"
kKeyTypePrivate == "private"
kKeyFormatPEM == "kKeyFormatPEM"
kKeyFormatDER == "kKeyFormatDER"
kKeyEncodingPKCS1 == "kKeyEncodingPKCS1"
kKeyEncodingPKCS8 == "kKeyEncodingPKCS8"
kKeyEncodingSPKI == "kKeyEncodingSPKI"
kKeyEncodingSEC1 == "kKeyEncodingSEC1"

ERR_CRYPTO_INCOMPATIBLE_KEY_OPTIONS == "ERR_CRYPTO_INCOMPATIBLE_KEY_OPTIONS"
ERR_CRYPTO_INVALID_KEY_OBJECT_TYPE == "ERR_CRYPTO_INVALID_KEY_OBJECT_TYPE"
ERR_INVALID_ARG_TYPE == "ERR_INVALID_ARG_TYPE"
ERR_INVALID_ARG_VALUE == "ERR_INVALID_ARG_VALUE"
ERR_OUT_OF_RANGE == "ERR_OUT_OF_RANGE"

\* Key input contexts.
kConsumePublic == 0
kConsumePrivate == 1
kCreatePublic == 2
kCreatePrivate == 3

encodingNames(type) ==
  CASE type = kKeyEncodingPKCS1 -> "pkcs1"
    [] type = kKeyEncodingPKCS8 -> "pkcs8"
    [] type = kKeyEncodingSPKI -> "spki"
    [] type = kKeyEncodingSEC1 -> "sec1"
    [] OTHER -> Undef

----------------------------------------------------------------------------
(* Outcomes: a function either returns a value or throws an error with a    *)
(* code and the two arguments the error was constructed with.               *)

\* The(S) is the element of the singleton S.  An intermediate result is bound as
\* the variable of a singleton set, The({ body : x \in {e} }), so that it is
\* evaluated once however often the body uses it.
The(S) == CHOOSE x \in S : TRUE

Return(v) == [ok |-> TRUE, val |-> v, code |-> "none", arg1 |-> "-", arg2 |-> "-"]

Throw(c, a1, a2) == [ok |-> FALSE, val |-> Undef, code |-> c, arg1 |-> a1, arg2 |-> a2]


ReturnEnc(f, t, c, p) ==
  [ok |-> TRUE, code |-> "none", arg1 |-> "-", arg2 |-> "-",
   format |-> f, type |-> t, cipher |-> c, passphrase |-> p]

ThrowEnc(c, a1, a2) ==
  [ok |-> FALSE, code |-> c, arg1 |-> a1, arg2 |-> a2,
   format |-> Undef, type |-> Undef, cipher |-> Undef, passphrase |-> Undef]

----------------------------------------------------------------------------
(* The Key Encoding Negotiator *)

parseKeyFormat(formatStr, defaultFormat, optionName) ==
  IF formatStr = Undef /\ defaultFormat # Undef THEN Return(defaultFormat)
  ELSE IF formatStr = "pem" THEN Return(kKeyFormatPEM)
  ELSE IF formatStr = "der" THEN Return(kKeyFormatDER)
  ELSE Throw(ERR_INVALID_ARG_VALUE, optionName, formatStr)

\* parseKeyType with the isPublic exclusions reported as incompatible options.
parseKeyType_IncompatibleOnPublicness(typeStr, required, keyType, isPublic, optionName) ==
  IF typeStr = Undef /\ ~required THEN Return(Undef)
  ELSE IF typeStr = "pkcs1" THEN
    IF keyType # Undef /\ keyType # "rsa"
    THEN Throw(ERR_CRYPTO_INCOMPATIBLE_KEY_OPTIONS, typeStr, "can only be used for RSA keys")
    ELSE Return(kKeyEncodingPKCS1)
  ELSE IF typeStr = "spki" THEN
    IF isPublic = False
    THEN Throw(ERR_CRYPTO_INCOMPATIBLE_KEY_OPTIONS, typeStr, "can only be used for public keys")
    ELSE Return(kKeyEncodingSPKI)
  ELSE IF typeStr = "pkcs8" THEN
    IF isPublic = True
    THEN Throw(ERR_CRYPTO_INCOMPATIBLE_KEY_OPTIONS, typeStr, "can only be used for private keys")
    ELSE Return(kKeyEncodingPKCS8)
  ELSE IF typeStr = "sec1" THEN
    IF isPublic = True \/ (keyType # Undef /\ keyType # "ec")
    THEN Throw(ERR_CRYPTO_INCOMPATIBLE_KEY_OPTIONS, typeStr, "can only be used for EC keys")
    ELSE Return(kKeyEncodingSEC1)
  ELSE Throw(ERR_INVALID_ARG_VALUE, optionName, typeStr)

parseKeyType(typeStr, required, keyType, isPublic, optionName) ==
  IF typeStr = Undef /\ ~required THEN Return(Undef)
  ELSE IF typeStr = "pkcs1" THEN
    IF keyType # Undef /\ keyType # "rsa"
    THEN Throw(ERR_CRYPTO_INCOMPATIBLE_KEY_OPTIONS, typeStr, "can only be used for RSA keys")
    ELSE Return(kKeyEncodingPKCS1)
  ELSE IF typeStr = "spki" /\ isPublic # False THEN Return(kKeyEncodingSPKI)
  ELSE IF typeStr = "pkcs8" /\ isPublic # True THEN Return(kKeyEncodingPKCS8)
  ELSE IF typeStr = "sec1" /\ isPublic # True THEN
    IF keyType # Undef /\ keyType # "ec"
    THEN Throw(ERR_CRYPTO_INCOMPATIBLE_KEY_OPTIONS, typeStr, "can only be used for EC keys")
    ELSE Return(kKeyEncodingSEC1)
  ELSE Throw(ERR_INVALID_ARG_VALUE, optionName, typeStr)

option(name, objName) ==
  IF objName = Undef
  THEN CASE name = "format" -> "options.format"
         [] name = "type" -> "options.type"
         [] name = "cipher" -> "options.cipher"
         [] name = "passphrase" -> "options.passphrase"
  ELSE CASE name = "format" -> "options.outer.format"
         [] name = "type" -> "options.outer.type"
         [] name = "cipher" -> "options.outer.cipher"
         [] name = "passphrase" -> "options.outer.passphrase"

parseKeyFormatAndType(enc, keyType, isPublic, objName) ==
  LET formatStr == enc.format
      typeStr == enc.type
      isInput == keyType = Undef
  IN The({ IF ~format.ok THEN ThrowEnc(format.code, format.arg1, format.arg2)
           ELSE The({ IF ~type.ok THEN ThrowEnc(type.code, type.arg1, type.arg2)
                      ELSE ReturnEnc(format.val, type.val, Undef, Undef) :
                      type \in {parseKeyType(typeStr,
                                             ~isInput \/ format.val = kKeyFormatDER,
                                             keyType,
                                             isPublic,
                                             option("type", objName))} }) :
           format \in {parseKeyFormat(formatStr,
                                      IF isInput THEN kKeyFormatPEM ELSE Undef,
                                      option("format", objName))} })

isStringOrBuffer(val) == isString(val) \/ isBuffer(val)

\* internal/crypto/util getArrayBufferOrView: a string becomes the bytes of its
\* decoding under `encoding` (utf8 by default), a buffer is returned as it is.
getArrayBufferOrView(buffer, name, encoding) ==
  IF isBuffer(buffer) THEN Return(buffer)
  ELSE IF isString(buffer)
       THEN Return(CASE buffer = "" -> "buffer:"
                     [] buffer = "pw" /\ encoding = "hex" -> "buffer:hex:pw"
                     [] buffer = "pw" /\ encoding # "hex" -> "buffer:pw"
                     [] OTHER -> "buffer:pem")
       ELSE Throw(ERR_INVALID_ARG_TYPE, name, buffer)

\* The cipher and passphrase checks without the rule that a DER PKCS1 or SEC1
\* encoding cannot carry a cipher.
parseCipherAndPassphrase_NoDerCheck(enc, ft, keyType, isPublic, objName) ==
  LET isInput == keyType = Undef
      read == isPublic # True
      cipher == IF read THEN enc.cipher ELSE Undef
      passphrase == IF read THEN enc.passphrase ELSE Undef
      encoding == IF read THEN enc.encoding ELSE Undef
      coerced == getArrayBufferOrView(passphrase, "key.passphrase", encoding)
  IN IF read /\ ~isInput /\ ~isNullish(cipher) /\ ~isString(cipher)
       THEN ThrowEnc(ERR_INVALID_ARG_VALUE, option("cipher", objName), cipher)
     ELSE IF read /\ ~isInput /\ isNullish(cipher) /\ passphrase # Undef
       THEN ThrowEnc(ERR_INVALID_ARG_VALUE, option("cipher", objName), cipher)
     ELSE IF read /\ ((isInput /\ passphrase # Undef /\ ~isStringOrBuffer(passphrase))
                      \/ (~isInput /\ ~isNullish(cipher) /\ ~isStringOrBuffer(passphrase)))
       THEN ThrowEnc(ERR_INVALID_ARG_VALUE, option("passphrase", objName), passphrase)
     ELSE IF passphrase # Undef /\ ~coerced.ok
       THEN ThrowEnc(coerced.code, coerced.arg1, coerced.arg2)
     ELSE ReturnEnc(ft.format, ft.type, cipher,
                    IF passphrase # Undef THEN coerced.val ELSE Undef)

\* The cipher and passphrase checks of parseKeyEncoding (lines 245-273), given
\* the negotiated format and type.
parseCipherAndPassphrase(enc, ft, keyType, isPublic, objName) ==
  LET isInput == keyType = Undef
      read == isPublic # True
      cipher == IF read THEN enc.cipher ELSE Undef
      passphrase == IF read THEN enc.passphrase ELSE Undef
      encoding == IF read THEN enc.encoding ELSE Undef
      coerced == getArrayBufferOrView(passphrase, "key.passphrase", encoding)
  IN IF read /\ ~isInput /\ ~isNullish(cipher) /\ ~isString(cipher)
       THEN ThrowEnc(ERR_INVALID_ARG_VALUE, option("cipher", objName), cipher)
     ELSE IF read /\ ~isInput /\ ~isNullish(cipher)
             /\ ft.format = kKeyFormatDER
             /\ (ft.type = kKeyEncodingPKCS1 \/ ft.type = kKeyEncodingSEC1)
       THEN ThrowEnc(ERR_CRYPTO_INCOMPATIBLE_KEY_OPTIONS,
                     encodingNames(ft.type), "does not support encryption")
     ELSE IF read /\ ~isInput /\ isNullish(cipher) /\ passphrase # Undef
       THEN ThrowEnc(ERR_INVALID_ARG_VALUE, option("cipher", objName), cipher)
     ELSE IF read /\ ((isInput /\ passphrase # Undef /\ ~isStringOrBuffer(passphrase))
                      \/ (~isInput /\ ~isNullish(cipher) /\ ~isStringOrBuffer(passphrase)))
       THEN ThrowEnc(ERR_INVALID_ARG_VALUE, option("passphrase", objName), passphrase)
     ELSE IF passphrase # Undef /\ ~coerced.ok
       THEN ThrowEnc(coerced.code, coerced.arg1, coerced.arg2)
     ELSE ReturnEnc(ft.format, ft.type, cipher,
                    IF passphrase # Undef THEN coerced.val ELSE Undef)

parseKeyEncoding(enc, keyType, isPublic, objName) ==
  IF enc.jstype # "object"
  THEN ThrowEnc(ERR_INVALID_ARG_TYPE, "options", "object")
  ELSE The({ IF ~ft.ok THEN ft
             ELSE parseCipherAndPassphrase(enc, ft, keyType, isPublic, objName) :
             ft \in {parseKeyFormatAndType(enc, keyType, isPublic, objName)} })

\* parsePublicKeyEncoding that does not pass the key type on.
parsePublicKeyEncoding_DropsKeyType(enc, keyType, objName) ==
  parseKeyEncoding(enc, Undef, Undef, objName)

\* keyType must be undefined when this is used to parse an input encoding and
\* must be a valid key type if used to parse an output encoding.
parsePublicKeyEncoding(enc, keyType, objName) ==
  parseKeyEncoding(enc, keyType, IF Truthy(keyType) THEN True ELSE Undef, objName)

parsePrivateKeyEncoding(enc, keyType, objName) ==
  parseKeyEncoding(enc, keyType, False, objName)

----------------------------------------------------------------------------
(* The values the calls are made with *)

FormatStrs == {Undef, "pem", "der", "jwk"}
TypeStrs == {Undef, "pkcs1", "spki", "pkcs8", "sec1", "raw"}
CipherVals == {Undef, Null, "aes-256-cbc", NumberVal}
PassphraseVals == {Undef, Null, "pw", "buffer:pw", NumberVal}
EncodingVals == {Undef, "hex"}
KeyTypes == {"rsa", "rsa-pss", "ec", "ed25519"}
Tristate == {True, False, Undef}
ObjNames == {Undef, "outer"}

\* The encoding-options values a caller can pass: objects, and two non-objects.
EncObjects ==
  [jstype : {"object"}, format : FormatStrs, type : TypeStrs, cipher : CipherVals,
   passphrase : PassphraseVals, encoding : EncodingVals]

NonObject(t) ==
  [jstype |-> t, format |-> Undef, type |-> Undef, cipher |-> Undef,
   passphrase |-> Undef, encoding |-> Undef]

EncVals == EncObjects \cup {NonObject("null"), NonObject("string")}

Pending == [ok |-> FALSE, code |-> "pending"]

----------------------------------------------------------------------------
(* Key Objects.  A KeyObjectHandle is native: the model keeps what the       *)
(* module reads from it, its key type (set by init) and the asymmetric key   *)
(* type it reports.  A Key Object is the record of its class and its symbol  *)
(* properties; getCalls counts the calls its getter made to the handle's     *)
(* getAsymmetricKeyType, byFactory tells a Key Object made by createSecretKey,*)
(* createPublicKey or createPrivateKey from one made by calling a constructor.*)

NoHandle == [type |-> "none", akt |-> "none"]

NoKey ==
  [cls |-> "none", kKeyType |-> "none", kHandle |-> NoHandle,
   kAsymmetricKeyType |-> Undef, getCalls |-> 0, byFactory |-> FALSE]

\* class KeyObject: constructor(type, handle).  `handle` is a handle record, or
\* NoHandle for a value that is no KeyObjectHandle.
KeyObject(cls, type, handle) ==
  IF type # "secret" /\ type # "public" /\ type # "private"
  THEN Throw(ERR_INVALID_ARG_VALUE, "type", type)
  ELSE IF handle = NoHandle
  THEN Throw(ERR_INVALID_ARG_TYPE, "handle", "object")
  ELSE Return([cls |-> cls, kKeyType |-> type, kHandle |-> handle,
               kAsymmetricKeyType |-> Undef, getCalls |-> 0, byFactory |-> FALSE])

SecretKeyObject(handle) == KeyObject("SecretKeyObject", "secret", handle)

\* PublicKeyObject whose constructor passes the wrong category to KeyObject.
PublicKeyObject_WrongCategory(handle) == KeyObject("PublicKeyObject", "private", handle)

PublicKeyObject(handle) == KeyObject("PublicKeyObject", "public", handle)

PrivateKeyObject(handle) == KeyObject("PrivateKeyObject", "private", handle)

\* get type()
typeOf(k) == k.kKeyType

isAsymmetricKeyObject(k) == k.cls \in {"PublicKeyObject", "PrivateKeyObject"}

\* get asymmetricKeyType() without the cache: the handle is asked on every read.
asymmetricKeyType_NoCache(k) ==
  [val |-> k.kHandle.akt, obj |-> [k EXCEPT !.getCalls = @ + 1]]

\* get asymmetricKeyType(): the value read and the Key Object after the read.
asymmetricKeyType(k) ==
  IF Truthy(k.kAsymmetricKeyType)
  THEN [val |-> k.kAsymmetricKeyType, obj |-> k]
  ELSE [val |-> k.kHandle.akt,
        obj |-> [k EXCEPT !.kAsymmetricKeyType = k.kHandle.akt, !.getCalls = @ + 1]]

NoCall == [called |-> FALSE]

ExportCall(f, t, c, p) ==
  [called |-> TRUE, format |-> f, type |-> t, cipher |-> c, passphrase |-> p]

\* PublicKeyObject.export(encoding): the negotiation's outcome, the call made to
\* the handle's export (NoCall when the negotiation threw) and the Key Object
\* after the read of asymmetricKeyType.
PublicKeyObject_export(k, encoding) ==
  The({ The({ [ret |-> e, obj |-> akt.obj,
                handleExport |-> IF e.ok THEN ExportCall(e.format, e.type, Undef, Undef) ELSE NoCall] :
               e \in {parsePublicKeyEncoding(encoding, akt.val, Undef)} }) :
         akt \in {asymmetricKeyType(k)} })

\* PrivateKeyObject.export that negotiates as for a public key.
PrivateKeyObject_export_AsPublic(k, encoding) ==
  The({ The({ [ret |-> e, obj |-> akt.obj,
                handleExport |-> IF e.ok THEN ExportCall(e.format, e.type, e.cipher, e.passphrase) ELSE NoCall] :
               e \in {parsePublicKeyEncoding(encoding, akt.val, Undef)} }) :
         akt \in {asymmetricKeyType(k)} })

\* PrivateKeyObject.export(encoding)
PrivateKeyObject_export(k, encoding) ==
  The({ The({ [ret |-> e, obj |-> akt.obj,
                handleExport |-> IF e.ok THEN ExportCall(e.format, e.type, e.cipher, e.passphrase) ELSE NoCall] :
               e \in {parsePrivateKeyEncoding(encoding, akt.val, Undef)} }) :
         akt \in {asymmetricKeyType(k)} })

\* SecretKeyObject.export(): straight to the handle, no negotiation.
SecretKeyObject_export(k) ==
  [ret |-> ReturnEnc(Undef, Undef, Undef, Undef), obj |-> k,
   handleExport |-> ExportCall(Undef, Undef, Undef, Undef)]

----------------------------------------------------------------------------
(* The Key Material Preparer.  A key argument is [shape, key, enc]: shape    *)
(* "direct" is the key itself, shape "options" an object whose `key` field   *)
(* is the key and whose other fields are enc.  The key is [kind, obj, data]: *)
(* a Key Object (obj), a Crypto Key wrapping obj, or any other value (data). *)

isKeyObject(k) == k.kind = "keyobject"

\* obj != null && obj[kKeyObject] !== undefined
isCryptoKey(k) == k.kind = "cryptokey"

ReturnKey(f, t, d, h, c, p) ==
  [ok |-> TRUE, code |-> "none", arg1 |-> "-", arg2 |-> "-",
   format |-> f, type |-> t, data |-> d, handle |-> h, cipher |-> c, passphrase |-> p]

ThrowKey(c, a1, a2) ==
  [ok |-> FALSE, code |-> c, arg1 |-> a1, arg2 |-> a2,
   format |-> Undef, type |-> Undef, data |-> Undef, handle |-> NoHandle,
   cipher |-> Undef, passphrase |-> Undef]

\* getKeyObjectHandle that lets a public Key Object through where a private
\* one is required.
getKeyObjectHandle_AllowsPublic(k, ctx) ==
  IF ctx = kCreatePrivate
  THEN ThrowKey(ERR_INVALID_ARG_TYPE, "key",
                {"string", "ArrayBuffer", "Buffer", "TypedArray", "DataView"})
  ELSE IF typeOf(k) # "private" /\ typeOf(k) # "public"
  THEN ThrowKey(ERR_CRYPTO_INVALID_KEY_OBJECT_TYPE, typeOf(k), "private or public")
  ELSE ReturnKey(Undef, Undef, Undef, k.kHandle, Undef, Undef)

getKeyObjectHandle(k, ctx) ==
  IF ctx = kCreatePrivate
  THEN ThrowKey(ERR_INVALID_ARG_TYPE, "key",
                {"string", "ArrayBuffer", "Buffer", "TypedArray", "DataView"})
  ELSE IF typeOf(k) # "private" /\ (ctx = kConsumePrivate \/ ctx = kCreatePublic)
  THEN ThrowKey(ERR_CRYPTO_INVALID_KEY_OBJECT_TYPE, typeOf(k), "private")
  ELSE IF typeOf(k) # "private" /\ typeOf(k) # "public"
  THEN ThrowKey(ERR_CRYPTO_INVALID_KEY_OBJECT_TYPE, typeOf(k), "private or public")
  ELSE ReturnKey(Undef, Undef, Undef, k.kHandle, Undef, Undef)

getKeyTypes(allowKeyObject, bufferOnly) ==
  {"ArrayBuffer", "Buffer", "TypedArray", "DataView"}
    \cup (IF ~bufferOnly THEN {"string"} ELSE {})
    \cup (IF ~bufferOnly /\ allowKeyObject THEN {"KeyObject", "CryptoKey"} ELSE {})

prepareAsymmetricKey(arg, ctx) ==
  LET k == arg.key
  IN IF arg.shape = "direct" THEN
       IF isKeyObject(k) THEN getKeyObjectHandle(k.obj, ctx)
       ELSE IF isCryptoKey(k) THEN getKeyObjectHandle(k.obj, ctx)
       ELSE IF isStringOrBuffer(k.data)
         THEN ReturnKey(kKeyFormatPEM, Undef,
                        getArrayBufferOrView(k.data, "key", Undef).val,
                        NoHandle, Undef, Undef)
       ELSE ThrowKey(ERR_INVALID_ARG_TYPE, "key", getKeyTypes(ctx # kCreatePrivate, FALSE))
     ELSE \* typeof key === 'object': { key: data, encoding } = key
       IF isKeyObject(k) THEN getKeyObjectHandle(k.obj, ctx)
       ELSE IF isCryptoKey(k) THEN getKeyObjectHandle(k.obj, ctx)
       ELSE IF ~isStringOrBuffer(k.data)
         THEN ThrowKey(ERR_INVALID_ARG_TYPE, "key.key",
                       getKeyTypes(ctx # kCreatePrivate, FALSE))
       ELSE LET isPublic == IF ctx = kConsumePrivate \/ ctx = kCreatePrivate
                            THEN False ELSE Undef
                data == getArrayBufferOrView(k.data, "key", arg.enc.encoding)
            IN The({ IF ~e.ok THEN ThrowKey(e.code, e.arg1, e.arg2)
                     ELSE ReturnKey(e.format, e.type, data.val, NoHandle,
                                    e.cipher, e.passphrase) :
                     e \in {parseKeyEncoding(arg.enc, Undef, isPublic, Undef)} })

preparePrivateKey(arg) == prepareAsymmetricKey(arg, kConsumePrivate)

preparePublicOrPrivateKey(arg) == prepareAsymmetricKey(arg, kConsumePublic)

\* prepareSecretKey(key, encoding, bufferOnly): the secret handle of a Key
\* Object or Crypto Key, or the bytes of a string or buffer.
prepareSecretKey(k, encoding, bufferOnly) ==
  IF ~bufferOnly /\ (isKeyObject(k) \/ isCryptoKey(k)) THEN
    IF typeOf(k.obj) # "secret"
    THEN ThrowKey(ERR_CRYPTO_INVALID_KEY_OBJECT_TYPE, typeOf(k.obj), "secret")
    ELSE ReturnKey(Undef, Undef, Undef, k.obj.kHandle, Undef, Undef)
  ELSE IF isKeyObject(k) \/ isCryptoKey(k) \/ ~isStringOrBuffer(k.data)
    THEN ThrowKey(ERR_INVALID_ARG_TYPE, "key", getKeyTypes(~bufferOnly, bufferOnly))
  ELSE ReturnKey(Undef, Undef, getArrayBufferOrView(k.data, "key", encoding).val,
                 NoHandle, Undef, Undef)

----------------------------------------------------------------------------
(* The factories.  KeyObjectHandle.init is native: it loads the key material *)
(* as a key of the category it is given, or throws.  `native` is what the    *)
(* material turns out to be: "fail", or the asymmetric key type the new      *)
(* handle will report.  Each factory gives its outcome, the Key Object it    *)
(* made (NoKey when it threw) and whether init was called.                   *)

AktVals == {"rsa", "ec", "ed25519", Undef}

KeyObjectHandle_init(category, prepared, native) ==
  IF native = "fail" THEN Throw("ERR_OSSL", "init", category)
  ELSE IF category = kKeyTypeSecret THEN Return([type |-> category, akt |-> Undef])
  ELSE IF prepared.handle # NoHandle
       THEN Return([type |-> category, akt |-> prepared.handle.akt])
       ELSE Return([type |-> category, akt |-> native])

Made(ret, obj, init) == [ret |-> ret, obj |-> obj, handleInit |-> init]

AsFactoryMade(k) == [k EXCEPT !.byFactory = TRUE]

createSecretKey(k, encoding, native) ==
  The({ IF ~p.ok THEN Made(p, NoKey, FALSE)
        ELSE IF p.data = "buffer:"
          THEN Made(ThrowKey(ERR_OUT_OF_RANGE, "key.byteLength", "> 0"), NoKey, FALSE)
        ELSE The({ IF ~h.ok THEN Made(ThrowKey(h.code, h.arg1, h.arg2), NoKey, TRUE)
                   ELSE Made(p, AsFactoryMade(SecretKeyObject(h.val).val), TRUE) :
                   h \in {KeyObjectHandle_init(kKeyTypeSecret, p, native)} }) :
        p \in {prepareSecretKey(k, encoding, TRUE)} })

\* createPublicKey that prepares its key as a consumer of a public key does.
createPublicKey_ConsumeContext(arg, native) ==
  The({ IF ~p.ok THEN Made(p, NoKey, FALSE)
        ELSE The({ IF ~h.ok THEN Made(ThrowKey(h.code, h.arg1, h.arg2), NoKey, TRUE)
                   ELSE Made(p, AsFactoryMade(PublicKeyObject(h.val).val), TRUE) :
                   h \in {KeyObjectHandle_init(kKeyTypePublic, p, native)} }) :
        p \in {prepareAsymmetricKey(arg, kConsumePublic)} })

createPublicKey(arg, native) ==
  The({ IF ~p.ok THEN Made(p, NoKey, FALSE)
         ELSE The({ IF ~h.ok THEN Made(ThrowKey(h.code, h.arg1, h.arg2), NoKey, TRUE)
                    ELSE Made(p, AsFactoryMade(PublicKeyObject(h.val).val), TRUE) :
                    h \in {KeyObjectHandle_init(kKeyTypePublic, p, native)} }) :
         p \in {prepareAsymmetricKey(arg, kCreatePublic)} })

createPrivateKey(arg, native) ==
  The({ IF ~p.ok THEN Made(p, NoKey, FALSE)
         ELSE The({ IF ~h.ok THEN Made(ThrowKey(h.code, h.arg1, h.arg2), NoKey, TRUE)
                    ELSE Made(p, AsFactoryMade(PrivateKeyObject(h.val).val), TRUE) :
                    h \in {KeyObjectHandle_init(kKeyTypePrivate, p, native)} }) :
         p \in {prepareAsymmetricKey(arg, kCreatePrivate)} })

----------------------------------------------------------------------------
(* The keys module as a state machine.  One Key Object is followed at a time *)
(* (Key Objects share no mutable state): a call that makes a Key Object      *)
(* makes it the one followed, and the earlier one, or a Crypto Key wrapping  *)
(* it, can be the argument of that call.                                     *)

MaxGetCalls == 2

\* The encoding options used in key arguments and in exports.
InputEncs ==
  [jstype : {"object"}, format : {Undef, "der", "jwk"}, type : {Undef, "spki", "pkcs8"},
   cipher : {Undef}, passphrase : {Undef, "pw", NumberVal}, encoding : {Undef}]

ExportEncs ==
  [jstype : {"object"}, format : {"pem", "der"}, type : {"pkcs1", "spki", "pkcs8", "sec1"},
   cipher : {Undef, Null, "aes-256-cbc"}, passphrase : {Undef, "pw"}, encoding : {Undef}]

KeyValue(kind, obj, data) == [kind |-> kind, obj |-> obj, data |-> data]

\* The values a caller can pass as a key: the Key Object followed, a Crypto Key
\* wrapping it, a PEM string, a buffer, the empty string, a number, undefined.
KeyValues ==
  (IF key = NoKey THEN {}
   ELSE {KeyValue("keyobject", key, Undef), KeyValue("cryptokey", key, Undef)})
  \cup {KeyValue("value", NoKey, d) : d \in {"pem", "buffer:pem", "", NumberVal, Undef}}

KeyArgs ==
  {[shape |-> "direct", key |-> k, enc |-> NonObject("none")] : k \in KeyValues}
  \cup {[shape |-> "options", key |-> k, enc |-> e] : k \in KeyValues, e \in InputEncs}

Idle == [op |-> "none", created |-> FALSE]

NoCryptoKey ==
  [kKeyObject |-> NoKey, kAlgorithm |-> Undef, kExtractable |-> Undef, kKeyUsages |-> 0]

NoSnapshot == [taken |-> FALSE]

CryptoIdle ==
  /\ arrays = <<>>
  /\ cryptoKey = NoCryptoKey
  /\ built = NoSnapshot
  /\ held = {}
  /\ snapshot = NoSnapshot
  /\ received = NoCryptoKey

Controllers == {"ac1", "ac2"}

\* new AbortController(): createAbortSignal() sets signal[kAborted] = false.
AbortInit ==
  /\ kAborted = [c \in Controllers |-> FALSE]
  /\ listeners = [c \in Controllers |-> 0]
  /\ stack = <<>>
  /\ calls = [c \in Controllers |-> 0]
  /\ dispatched = [c \in Controllers |-> 0]
  /\ seenAtDispatch = [c \in Controllers |-> {}]
  /\ reentered = [c \in Controllers |-> FALSE]

AbortIdle == AbortInit

IdleArgs ==
  [enc |-> NonObject("none"), keyType |-> Undef, isPublic |-> Undef, objName |-> Undef]

ParseIdle ==
  /\ pArgs = IdleArgs
  /\ pRet = Pending
  /\ tRet = Pending

KeysIdle ==
  /\ key = NoKey
  /\ last = Idle

Init == KeysIdle /\ ParseIdle /\ CryptoIdle /\ AbortIdle

Called(op, arg, made) ==
  [op |-> op, arg |-> arg, ret |-> made.ret, handleInit |-> made.handleInit,
   created |-> made.obj # NoKey]

CreateSecretKey ==
  /\ last = Idle
  /\ \E k \in KeyValues, encoding \in EncodingVals, native \in {"fail", "ok"} :
    \E made \in {createSecretKey(k, encoding, native)} :
       /\ key' = IF made.obj # NoKey THEN made.obj ELSE key
       /\ last' = Called("createSecretKey", k, made)
       /\ UNCHANGED <<parseVars, cryptoVars, abortVars>>

CreatePublicKey ==
  /\ last = Idle
  /\ \E arg \in KeyArgs, native \in AktVals \cup {"fail"} :
    \E made \in {createPublicKey(arg, native)} :
       /\ key' = IF made.obj # NoKey THEN made.obj ELSE key
       /\ last' = Called("createPublicKey", arg, made)
       /\ UNCHANGED <<parseVars, cryptoVars, abortVars>>

CreatePrivateKey ==
  /\ last = Idle
  /\ \E arg \in KeyArgs, native \in AktVals \cup {"fail"} :
    \E made \in {createPrivateKey(arg, native)} :
       /\ key' = IF made.obj # NoKey THEN made.obj ELSE key
       /\ last' = Called("createPrivateKey", arg, made)
       /\ UNCHANGED <<parseVars, cryptoVars, abortVars>>

\* new KeyObject(type, handle), new SecretKeyObject(handle), ... called with the
\* handle of the Key Object followed, or with a value that is no handle.
Construct ==
  /\ last = Idle
  /\ \E cls \in {"KeyObject", "SecretKeyObject", "PublicKeyObject", "PrivateKeyObject"},
     type \in {"secret", "public", "private", "symmetric"},
     handle \in {key.kHandle, NoHandle} :
    \E r \in {CASE cls = "KeyObject" -> KeyObject(cls, type, handle)
                [] cls = "SecretKeyObject" -> SecretKeyObject(handle)
                [] cls = "PublicKeyObject" -> PublicKeyObject(handle)
                [] cls = "PrivateKeyObject" -> PrivateKeyObject(handle)} :
       /\ cls # "KeyObject" => type = "secret"
       /\ key' = IF r.ok THEN r.val ELSE key
       /\ last' = [op |-> "new", arg |-> [cls |-> cls, type |-> type, handle |-> handle],
                   ret |-> [ok |-> r.ok, code |-> r.code, arg1 |-> r.arg1, arg2 |-> r.arg2],
                   created |-> r.ok]
       /\ UNCHANGED <<parseVars, cryptoVars, abortVars>>

\* A read of key.asymmetricKeyType.  A handle that holds a secret key has no
\* asymmetric key to report on; the read is modelled for the other handles.
ReadAsymmetricKeyType ==
  /\ last = Idle
  /\ isAsymmetricKeyObject(key)
  /\ key.kHandle.type # kKeyTypeSecret
  /\ Truthy(key.kAsymmetricKeyType) \/ key.getCalls < MaxGetCalls
  /\ \E r \in {asymmetricKeyType(key)} :
        /\ key' = r.obj
        /\ last' = [op |-> "asymmetricKeyType", val |-> r.val,
                    fromCache |-> r.obj.getCalls = key.getCalls, created |-> FALSE]
  /\ UNCHANGED <<parseVars, cryptoVars, abortVars>>

Export ==
  /\ last = Idle
  /\ key # NoKey
  /\ key.cls # "KeyObject"
  /\ isAsymmetricKeyObject(key) =>
       /\ key.kHandle.type # kKeyTypeSecret
       /\ Truthy(key.kAsymmetricKeyType) \/ key.getCalls < MaxGetCalls
  /\ \E enc \in ExportEncs \cup {NonObject("undefined")} :
       \E r \in {CASE key.cls = "PublicKeyObject" -> PublicKeyObject_export(key, enc)
                   [] key.cls = "PrivateKeyObject" -> PrivateKeyObject_export(key, enc)
                   [] key.cls = "SecretKeyObject" -> SecretKeyObject_export(key)} :
          /\ key.cls = "SecretKeyObject" => enc = NonObject("undefined")
          /\ key' = r.obj
          /\ last' = [op |-> "export", arg |-> enc, akt |-> key.kHandle.akt,
                      ret |-> r.ret, handleExport |-> r.handleExport, created |-> FALSE]
  /\ UNCHANGED <<parseVars, cryptoVars, abortVars>>

Prepared(op, arg, ret) ==
  [op |-> op, arg |-> arg, ret |-> ret, handleInit |-> FALSE, created |-> FALSE]

PreparePrivateKey ==
  /\ last = Idle
  /\ \E arg \in KeyArgs :
    /\ last' = Prepared("preparePrivateKey", arg, preparePrivateKey(arg))
    /\ UNCHANGED <<key, parseVars, cryptoVars, abortVars>>

PreparePublicOrPrivateKey ==
  /\ last = Idle
  /\ \E arg \in KeyArgs :
    /\ last' = Prepared("preparePublicOrPrivateKey", arg, preparePublicOrPrivateKey(arg))
    /\ UNCHANGED <<key, parseVars, cryptoVars, abortVars>>

PrepareSecretKey ==
  /\ last = Idle
  /\ \E k \in KeyValues, encoding \in EncodingVals :
    /\ last' = Prepared("prepareSecretKey", k, prepareSecretKey(k, encoding, FALSE))
    /\ UNCHANGED <<key, parseVars, cryptoVars, abortVars>>

\* The caller takes the outcome of the call; the next call starts after that.
TakeOutcome ==
  /\ last # Idle
  /\ last' = Idle
  /\ UNCHANGED <<key, parseVars, cryptoVars, abortVars>>

Next ==
  \/ CreateSecretKey
  \/ CreatePublicKey
  \/ CreatePrivateKey
  \/ Construct
  \/ ReadAsymmetricKeyType
  \/ Export
  \/ PreparePrivateKey
  \/ PreparePublicOrPrivateKey
  \/ PrepareSecretKey
  \/ TakeOutcome

Spec == Init /\ [][Next]_vars

(* Claims about Key Objects and key preparation (checked under Spec) *)

IsExistingKey(k) == k.kind \in {"keyobject", "cryptokey"}

\* C1 as stated: the category of every Key Object equals the key type of the
\* handle it wraps.
C1_CategoryMatchesHandle ==
  key # NoKey => key.kKeyType = key.kHandle.type

\* C1 amended: the category of every Key Object made by createSecretKey,
\* createPublicKey or createPrivateKey equals the key type of its handle (the
\* constructors accept a handle of any key type), and no call changes the
\* category or the handle of an existing Key Object.
C1_FactoryCategoryMatchesHandle ==
  [][/\ key'.byFactory => key'.kKeyType = key'.kHandle.type
     /\ ~last'.created => (key'.kKeyType = key.kKeyType /\ key'.kHandle = key.kHandle)]_vars

\* C1 witness: createPublicKey made a public Key Object from a private one.
C1_Witness ==
  /\ last.op = "createPublicKey" /\ last.created
  /\ last.arg.key.kind = "keyobject" /\ last.arg.key.obj.kKeyType = "private"
  /\ key.byFactory /\ key.kKeyType = "public" /\ key.kHandle.type = kKeyTypePublic

\* C4: preparePrivateKey given a Key Object or Crypto Key, directly or as the
\* `key` field of an options object: a public or secret one fails with the
\* key-object type-mismatch error (received its category, expected 'private')
\* and returns no handle; a private one returns {data: handle} whatever the
\* encoding options are.
C4_PreparePrivateKeyOfExistingKey ==
  (last.op = "preparePrivateKey" /\ IsExistingKey(last.arg.key)) =>
    LET obj == last.arg.key.obj
    IN IF obj.kKeyType = "private"
       THEN last.ret = ReturnKey(Undef, Undef, Undef, obj.kHandle, Undef, Undef)
       ELSE /\ ~last.ret.ok
            /\ last.ret.code = ERR_CRYPTO_INVALID_KEY_OBJECT_TYPE
            /\ last.ret.arg1 = obj.kKeyType
            /\ last.ret.arg2 = "private"
            /\ last.ret.handle = NoHandle

\* C4 witness: a Crypto Key wrapping a public Key Object, passed as options.key.
C4_Witness ==
  /\ last.op = "preparePrivateKey"
  /\ last.arg.shape = "options" /\ last.arg.key.kind = "cryptokey"
  /\ last.arg.key.obj.kKeyType = "public"
  /\ last.ret.code = ERR_CRYPTO_INVALID_KEY_OBJECT_TYPE

\* C5: a public Key Object whose handle reports a key family, exported with
\* {format: 'der', type: 'pkcs1'}: the handle's export is reached exactly when
\* the family is rsa; for every other family the export fails with the
\* incompatible-key-options error and the handle's export is not called.
C5_PublicDerPkcs1OnlyForRsa ==
  (/\ last.op = "export" /\ key.cls = "PublicKeyObject"
   /\ last.arg.format = "der" /\ last.arg.type = "pkcs1"
   /\ last.akt # Undef) =>
    IF last.akt = "rsa"
    THEN /\ last.ret.ok
         /\ last.handleExport = ExportCall(kKeyFormatDER, kKeyEncodingPKCS1, Undef, Undef)
    ELSE /\ ~last.ret.ok
         /\ last.ret.code = ERR_CRYPTO_INCOMPATIBLE_KEY_OPTIONS
         /\ last.handleExport = NoCall

\* C5 witness: the export of a public EC key to DER PKCS1 was refused.
C5_Witness ==
  /\ last.op = "export" /\ key.cls = "PublicKeyObject" /\ key.byFactory
  /\ last.arg.format = "der" /\ last.arg.type = "pkcs1" /\ last.akt = "ec"
  /\ last.ret.code = ERR_CRYPTO_INCOMPATIBLE_KEY_OPTIONS

PassphraseWithoutCipher(enc) ==
  enc.jstype = "object" /\ enc.passphrase # Undef /\ isNullish(enc.cipher)

\* C6 as stated: an export, public or private, whose encoding carries a
\* passphrase but no cipher fails before the handle's export is called.
C6_PassphraseWithoutCipherFails ==
  (/\ last.op = "export" /\ isAsymmetricKeyObject(key)
   /\ PassphraseWithoutCipher(last.arg)) =>
    (~last.ret.ok /\ last.handleExport = NoCall)

\* C6 amended: the export of a private Key Object whose handle reports a key
\* type fails before the handle's export is called when the encoding carries
\* a passphrase but no cipher; the export of a public Key Object whose handle
\* reports a key type reads neither passphrase nor cipher: with type spki it
\* calls the handle's export with the format and type alone.
C6_PassphraseWithoutCipherFailsForPrivate ==
  (/\ last.op = "export" /\ Truthy(last.akt)
   /\ PassphraseWithoutCipher(last.arg)) =>
    /\ key.cls = "PrivateKeyObject" => (~last.ret.ok /\ last.handleExport = NoCall)
    /\ (key.cls = "PublicKeyObject" /\ last.arg.type = "spki") =>
         /\ last.ret.ok
         /\ last.handleExport =
              ExportCall(IF last.arg.format = "der" THEN kKeyFormatDER ELSE kKeyFormatPEM,
                         kKeyEncodingSPKI, Undef, Undef)

\* C6 witness: a private RSA key exported to PEM PKCS8 with a passphrase and no
\* cipher is refused for the missing cipher.
C6_Witness ==
  /\ last.op = "export" /\ key.cls = "PrivateKeyObject" /\ last.akt = "rsa"
  /\ last.arg.format = "pem" /\ last.arg.type = "pkcs8"
  /\ last.arg.passphrase = "pw" /\ last.arg.cipher = Undef
  /\ last.ret.code = ERR_INVALID_ARG_VALUE /\ last.ret.arg1 = "options.cipher"
  /\ last.handleExport = NoCall

\* C8 as stated: the handle's getAsymmetricKeyType is called at most once over
\* the life of a Key Object, whatever it returns.
C8_HandleAskedAtMostOnce ==
  key.getCalls <= 1

\* C8 amended: the handle's getAsymmetricKeyType is called at most once over
\* the life of a Key Object when it returns a key type name; when it returns
\* undefined nothing is cached and every read calls it again; every read
\* returns the value the first call returned.
C8_HandleAskedOnceWhenTypeReported ==
  /\ Truthy(key.kHandle.akt) => key.getCalls <= 1
  /\ key.getCalls >= 1 => key.kAsymmetricKeyType = key.kHandle.akt
  /\ key.getCalls = 0 => key.kAsymmetricKeyType = Undef
  /\ last.op = "asymmetricKeyType" =>
       /\ last.val = key.kHandle.akt
       /\ last.fromCache => (Truthy(key.kHandle.akt) /\ key.getCalls = 1)
       /\ ~last.fromCache => key.getCalls >= 1

\* C8 witness: a read of asymmetricKeyType answered from the cache.
C8_Witness ==
  /\ last.op = "asymmetricKeyType" /\ last.fromCache
  /\ last.val = "ec" /\ key.getCalls = 1

\* C9: createPublicKey given a Key Object or Crypto Key, directly or as the
\* `key` field of an options object: a handle is prepared and init is called
\* exactly when the category is 'private'; a public or secret one fails with
\* the key-object type-mismatch error expecting 'private', and nothing is made.
C9_CreatePublicKeyOfExistingKey ==
  (last.op = "createPublicKey" /\ IsExistingKey(last.arg.key)) =>
    LET obj == last.arg.key.obj
    IN /\ last.handleInit <=> obj.kKeyType = "private"
       /\ last.created => last.ret.handle = obj.kHandle
       /\ obj.kKeyType # "private" =>
            /\ ~last.ret.ok
            /\ last.ret.code = ERR_CRYPTO_INVALID_KEY_OBJECT_TYPE
            /\ last.ret.arg1 = obj.kKeyType
            /\ last.ret.arg2 = "private"
            /\ ~last.created
            /\ key = obj

\* C9 witness: createPublicKey refused a secret Key Object.
C9_Witness ==
  /\ last.op = "createPublicKey" /\ last.arg.key.kind = "keyobject"
  /\ last.arg.key.obj.kKeyType = "secret"
  /\ last.ret.code = ERR_CRYPTO_INVALID_KEY_OBJECT_TYPE /\ ~last.handleInit

----------------------------------------------------------------------------
(* The negotiator as a pure function: the arguments are drawn in the initial *)
(* state, the actions apply parseKeyEncoding and parseKeyType to them.       *)

ParseInit ==
  /\ pArgs \in [enc : EncVals, keyType : KeyTypes \cup {Undef},
                isPublic : Tristate, objName : ObjNames]
  /\ pRet = Pending
  /\ tRet = Pending
  /\ KeysIdle /\ CryptoIdle /\ AbortIdle

CallParseKeyEncoding ==
  /\ pRet = Pending
  /\ pRet' = parseKeyEncoding(pArgs.enc, pArgs.keyType, pArgs.isPublic, pArgs.objName)
  /\ UNCHANGED <<pArgs, tRet, keyVars, cryptoVars, abortVars>>

CallParseKeyType ==
  /\ tRet = Pending
  /\ \E required \in BOOLEAN :
       tRet' = [required |-> required] @@
               parseKeyType(pArgs.enc.type, required, pArgs.keyType, pArgs.isPublic,
                            option("type", pArgs.objName))
  /\ UNCHANGED <<pArgs, pRet, keyVars, cryptoVars, abortVars>>

ParseNext == CallParseKeyEncoding \/ CallParseKeyType

SpecParse == ParseInit /\ [][ParseNext]_vars

(* Claims about the negotiator (checked under SpecParse) *)

TypeRecognized(t) == t \in {"pkcs1", "spki", "pkcs8", "sec1"}

FamilyIncompatible(t, keyType) ==
  \/ t = "pkcs1" /\ keyType \notin {Undef, "rsa"}
  \/ t = "sec1" /\ keyType \notin {Undef, "ec"}

PublicnessIncompatible(t, isPublic) ==
  \/ t = "spki" /\ isPublic = False
  \/ t \in {"pkcs8", "sec1"} /\ isPublic = True

\* C2 as stated: a returned descriptor has a cipher only for a private-key
\* export (keyType defined and isPublic false), and never together with
\* format DER and type PKCS1 or SEC1.
C2_CipherOnlyOnPrivateExport ==
  pRet.ok =>
    /\ ~isNullish(pRet.cipher) => (pArgs.keyType # Undef /\ pArgs.isPublic = False)
    /\ ~(~isNullish(pRet.cipher) /\ pRet.format = kKeyFormatDER
         /\ pRet.type \in {kKeyEncodingPKCS1, kKeyEncodingSEC1})

\* C2 amended: a returned descriptor has a cipher only if the call was not a
\* public-key parse (isPublic is not true), and it is the caller's cipher
\* option; on an export (keyType defined) a cipher other than null is a string
\* and never comes with format DER and type PKCS1 or SEC1; on an input parse
\* (keyType undefined) the cipher option is returned as given.
C2_CipherOnlyWhenNotPublic ==
  pRet.ok =>
    /\ pRet.cipher # Undef => (pArgs.isPublic # True /\ pRet.cipher = pArgs.enc.cipher)
    /\ (pArgs.keyType # Undef /\ ~isNullish(pRet.cipher)) =>
         /\ isString(pRet.cipher)
         /\ ~(pRet.format = kKeyFormatDER
              /\ pRet.type \in {kKeyEncodingPKCS1, kKeyEncodingSEC1})
    /\ (pArgs.keyType = Undef /\ pArgs.isPublic # True) => pRet.cipher = pArgs.enc.cipher

\* C2 witness: a private-key export to DER PKCS8 that returns its cipher.
C2_Witness ==
  /\ pRet.ok
  /\ pArgs.keyType = "ec" /\ pArgs.isPublic = False
  /\ pRet.cipher = "aes-256-cbc"
  /\ pRet.format = kKeyFormatDER /\ pRet.type = kKeyEncodingPKCS8

\* C3 as stated: a recognized tag incompatible with the keyType family or with
\* the isPublic constraint fails with the incompatible-key-options error, and
\* the invalid-value error is produced only for an unrecognized or missing tag.
C3_IncompatibleTagsAreIncompatibleOptions ==
  tRet.code # "pending" =>
    /\ (FamilyIncompatible(pArgs.enc.type, pArgs.keyType)
        \/ PublicnessIncompatible(pArgs.enc.type, pArgs.isPublic))
         => tRet.code = ERR_CRYPTO_INCOMPATIBLE_KEY_OPTIONS
    /\ tRet.code = ERR_INVALID_ARG_VALUE => ~TypeRecognized(pArgs.enc.type)

\* C3 amended: a recognized tag incompatible with the keyType family (and not
\* excluded by isPublic) fails with the incompatible-key-options error; a
\* recognized tag excluded by the isPublic constraint fails with the
\* invalid-value error, as does an unrecognized tag or a missing required tag;
\* every other call returns.
C3_ErrorCodeOfParseKeyType ==
  tRet.code # "pending" =>
    LET t == pArgs.enc.type
        excluded == PublicnessIncompatible(t, pArgs.isPublic)
        family == FamilyIncompatible(t, pArgs.keyType)
        unknown == ~TypeRecognized(t) /\ ~(t = Undef /\ ~tRet.required)
    IN /\ tRet.code = ERR_CRYPTO_INCOMPATIBLE_KEY_OPTIONS <=> (family /\ ~excluded)
       /\ tRet.code = ERR_INVALID_ARG_VALUE <=> (excluded \/ unknown)
       /\ tRet.ok <=> ~(family \/ excluded \/ unknown)
       /\ tRet.code = ERR_INVALID_ARG_VALUE =>
            (tRet.arg1 = option("type", pArgs.objName) /\ tRet.arg2 = t)

\* C3 witness: spki asked for with isPublic false ends in the invalid-value error.
C3_Witness ==
  /\ tRet.code = ERR_INVALID_ARG_VALUE
  /\ pArgs.enc.type = "spki" /\ pArgs.isPublic = False

----------------------------------------------------------------------------
(* Crypto Keys.  The usages of a Crypto Key are a JavaScript array, held by  *)
(* reference: arrays[r] is the content of the array with reference r.  The   *)
(* array given to the internal constructor belongs to the Crypto Key; the    *)
(* caller can change the arrays that reads of .usages returned.  The         *)
(* snapshot travels to the receiving side as it is.                          *)

MaxUsages == 2
MaxArrays == 3

UsageNames == {"sign", "verify"}
AlgorithmVals == {"ECDSA", "AES-GCM"}

SeqsUpTo(S, n) == UNION {[1..k -> S] : k \in 0..n}

\* The Key Objects a Crypto Key is built around.
WrappedKeyObjects ==
  {AsFactoryMade(SecretKeyObject([type |-> kKeyTypeSecret, akt |-> Undef]).val),
   AsFactoryMade(PublicKeyObject([type |-> kKeyTypePublic, akt |-> "ec"]).val),
   AsFactoryMade(PrivateKeyObject([type |-> kKeyTypePrivate, akt |-> "ec"]).val)}

\* class InternalCryptoKey: constructor(keyObject, algorithm, keyUsages, extractable)
InternalCryptoKey(keyObject, algorithm, keyUsages, extractable) ==
  [kKeyObject |-> keyObject, kAlgorithm |-> algorithm,
   kExtractable |-> extractable, kKeyUsages |-> keyUsages]

\* get type()
CryptoKey_type(ck) == typeOf(ck.kKeyObject)

\* get extractable()
CryptoKey_extractable(ck) == ck.kExtractable

\* get algorithm()
CryptoKey_algorithm(ck) == ck.kAlgorithm

\* ArrayFrom(a): a new array with the elements of a, in order.
ArrayFrom(heap, a) == [arrays |-> Append(heap, heap[a]), ref |-> Len(heap) + 1]

\* get usages() that hands out the internal array itself.
CryptoKey_usages_NoCopy(ck, heap) == [arrays |-> heap, ref |-> ck.kKeyUsages]

\* get usages()
CryptoKey_usages(ck, heap) == ArrayFrom(heap, ck.kKeyUsages)

\* [kClone]()
kClone(ck, heap) ==
  The({ [arrays |-> u.arrays,
         data |-> [keyObject |-> ck.kKeyObject,
                   algorithm |-> CryptoKey_algorithm(ck),
                   usages |-> u.ref,
                   extractable |-> CryptoKey_extractable(ck)],
         deserializeInfo |-> "internal/crypto/keys:InternalCryptoKey",
         taken |-> TRUE] :
        u \in {CryptoKey_usages(ck, heap)} })

\* [kDeserialize]({ keyObject, algorithm, usages, extractable })
kDeserialize(this, data) ==
  [this EXCEPT !.kKeyObject = data.keyObject,
               !.kAlgorithm = data.algorithm,
               !.kKeyUsages = data.usages,
               !.kExtractable = data.extractable]

NewInternalCryptoKey ==
  /\ cryptoKey = NoCryptoKey
  /\ \E keyObject \in WrappedKeyObjects, algorithm \in AlgorithmVals,
        keyUsages \in SeqsUpTo(UsageNames, MaxUsages), extractable \in {True, False} :
       /\ arrays' = <<keyUsages>>
       /\ cryptoKey' = InternalCryptoKey(keyObject, algorithm, 1, extractable)
       /\ built' = [keyObject |-> keyObject, algorithm |-> algorithm,
                    usages |-> keyUsages, extractable |-> extractable,
                    clonedAfterChange |-> FALSE]
  /\ UNCHANGED <<held, snapshot, received, parseVars, keyVars, abortVars>>

\* The caller reads cryptoKey.usages and keeps the array.
ReadUsages ==
  /\ cryptoKey # NoCryptoKey
  /\ Len(arrays) < MaxArrays
  /\ \E r \in {CryptoKey_usages(cryptoKey, arrays)} :
       /\ arrays' = r.arrays
       /\ held' = held \cup {r.ref}
  /\ UNCHANGED <<cryptoKey, built, snapshot, received, parseVars, keyVars, abortVars>>

\* The caller changes an array it got from a read: push(u) or pop().
PushUsage ==
  /\ \E a \in held, u \in UsageNames :
       /\ Len(arrays[a]) < MaxUsages
       /\ arrays' = [arrays EXCEPT ![a] = Append(@, u)]
  /\ UNCHANGED <<cryptoKey, built, held, snapshot, received, parseVars, keyVars, abortVars>>

PopUsage ==
  /\ \E a \in held :
       /\ Len(arrays[a]) > 0
       /\ arrays' = [arrays EXCEPT ![a] = SubSeq(@, 1, Len(@) - 1)]
  /\ UNCHANGED <<cryptoKey, built, held, snapshot, received, parseVars, keyVars, abortVars>>

Clone ==
  /\ cryptoKey # NoCryptoKey
  /\ snapshot = NoSnapshot
  /\ Len(arrays) < MaxArrays
  /\ \E r \in {kClone(cryptoKey, arrays)} :
       /\ arrays' = r.arrays
       /\ snapshot' = [taken |-> TRUE, data |-> r.data, deserializeInfo |-> r.deserializeInfo]
  /\ built' = [built EXCEPT !.clonedAfterChange =
                 \E a \in held : arrays[a] # built.usages]
  /\ UNCHANGED <<cryptoKey, held, received, parseVars, keyVars, abortVars>>

\* The receiving side makes a fresh instance and applies [kDeserialize].
Deserialize ==
  /\ snapshot # NoSnapshot
  /\ received = NoCryptoKey
  /\ received' = kDeserialize(InternalCryptoKey(NoKey, Undef, 0, Undef), snapshot.data)
  /\ UNCHANGED <<arrays, cryptoKey, built, held, snapshot, parseVars, keyVars, abortVars>>

CryptoKeyNext ==
  \/ NewInternalCryptoKey
  \/ ReadUsages
  \/ PushUsage
  \/ PopUsage
  \/ Clone
  \/ Deserialize

CryptoKeyInit == CryptoIdle /\ KeysIdle /\ ParseIdle /\ AbortIdle

SpecCryptoKey == CryptoKeyInit /\ [][CryptoKeyNext]_vars

(* Claims about Crypto Keys (checked under SpecCryptoKey) *)

\* The elements a read of ck.usages returns.
UsagesRead(ck) == The({ r.arrays[r.ref] : r \in {CryptoKey_usages(ck, arrays)} })

\* C7: the Crypto Key made by [kDeserialize] from the snapshot [kClone] took of
\* cryptoKey reads the same type, extractable and algorithm, and the same
\* usages in the same order, as cryptoKey, whose usages are those it was
\* built with whatever was done to arrays that earlier reads returned.
C7_TransferRoundTrip ==
  /\ cryptoKey # NoCryptoKey => UsagesRead(cryptoKey) = built.usages
  /\ received # NoCryptoKey =>
       /\ CryptoKey_type(received) = CryptoKey_type(cryptoKey)
       /\ CryptoKey_extractable(received) = CryptoKey_extractable(cryptoKey)
       /\ CryptoKey_algorithm(received) = CryptoKey_algorithm(cryptoKey)
       /\ UsagesRead(received) = UsagesRead(cryptoKey)

\* C7 witness: a Crypto Key with two usages in order was received from a
\* snapshot taken after an array returned by a read had been changed.
C7_Witness ==
  /\ received # NoCryptoKey
  /\ built.clonedAfterChange
  /\ built.usages = <<"verify", "sign">>
  /\ UsagesRead(received) = <<"verify", "sign">>

----------------------------------------------------------------------------
(* AbortController.  dispatchEvent belongs to EventTarget: it calls the      *)
(* listeners registered when it starts, one after the other, and returns.    *)
(* A listener may call abort() on any controller while it runs.              *)

MaxListeners == 2
MaxAbortCalls == 3

\* get aborted()
AbortSignal_aborted(c) == kAborted[c]

\* abortSignal without the test of signal[kAborted].
abortSignal_NoGuard(aborted) == [kAborted |-> TRUE, dispatch |-> TRUE]

\* abortSignal(signal): the new signal[kAborted] and whether the event is dispatched.
abortSignal(aborted) ==
  IF aborted THEN [kAborted |-> aborted, dispatch |-> FALSE]
  ELSE [kAborted |-> TRUE, dispatch |-> TRUE]

Top == stack[Len(stack)]

InDispatch(c) == \E i \in 1..Len(stack) : stack[i].c = c

\* signal.addEventListener('abort', listener)
AddListener(c) ==
  /\ listeners[c] < MaxListeners
  /\ listeners' = [listeners EXCEPT ![c] = @ + 1]
  /\ UNCHANGED <<kAborted, stack, calls, dispatched, seenAtDispatch, reentered,
               parseVars, keyVars, cryptoVars>>

\* controller.abort(), called by the program or by the listener that is running.
Abort(c) ==
  /\ IF stack = <<>> THEN TRUE ELSE Top.running
  /\ calls[c] < MaxAbortCalls
  /\ calls' = [calls EXCEPT ![c] = @ + 1]
  /\ reentered' = [reentered EXCEPT ![c] = @ \/ InDispatch(c)]
  /\ \E r \in {abortSignal(kAborted[c])} :
       /\ kAborted' = [kAborted EXCEPT ![c] = r.kAborted]
       /\ IF r.dispatch
          THEN /\ stack' = Append(stack, [c |-> c, next |-> 1, n |-> listeners[c],
                                          running |-> FALSE])
               /\ dispatched' = [dispatched EXCEPT ![c] = @ + 1]
               /\ seenAtDispatch' = [seenAtDispatch EXCEPT ![c] = @ \cup {r.kAborted}]
          ELSE UNCHANGED <<stack, dispatched, seenAtDispatch>>
  /\ UNCHANGED <<listeners, parseVars, keyVars, cryptoVars>>

\* dispatchEvent calls the next listener.
StartListener ==
  /\ stack # <<>>
  /\ ~Top.running
  /\ Top.next <= Top.n
  /\ stack' = [stack EXCEPT ![Len(stack)] = [@ EXCEPT !.running = TRUE, !.next = @ + 1]]
  /\ UNCHANGED <<kAborted, listeners, calls, dispatched, seenAtDispatch, reentered,
               parseVars, keyVars, cryptoVars>>

\* The running listener returns.
FinishListener ==
  /\ stack # <<>>
  /\ Top.running
  /\ stack' = [stack EXCEPT ![Len(stack)] = [@ EXCEPT !.running = FALSE]]
  /\ UNCHANGED <<kAborted, listeners, calls, dispatched, seenAtDispatch, reentered,
               parseVars, keyVars, cryptoVars>>

\* dispatchEvent returns, and with it abortSignal and abort().
EndDispatch ==
  /\ stack # <<>>
  /\ ~Top.running
  /\ Top.next > Top.n
  /\ stack' = SubSeq(stack, 1, Len(stack) - 1)
  /\ UNCHANGED <<kAborted, listeners, calls, dispatched, seenAtDispatch, reentered,
               parseVars, keyVars, cryptoVars>>

AbortNext ==
  \/ \E c \in Controllers : AddListener(c)
  \/ \E c \in Controllers : Abort(c)
  \/ StartListener
  \/ FinishListener
  \/ EndDispatch

AbortControllerInit == AbortInit /\ KeysIdle /\ ParseIdle /\ CryptoIdle

SpecAbort == AbortControllerInit /\ [][AbortNext]_vars

(* Claims about AbortController (checked under SpecAbort) *)

\* C10: over any sequence of abort() calls on a controller, re-entrant ones
\* included, 'abort' is dispatched on its signal exactly once, by the first
\* call; the aborted flag is true when that dispatch starts; and once true the
\* flag never becomes false again.
C10_AbortDispatchedOnce ==
  [][\A c \in Controllers :
       /\ dispatched'[c] <= 1
       /\ dispatched'[c] = 1 <=> calls'[c] >= 1
       /\ dispatched'[c] > dispatched[c] => calls[c] = 0
       /\ seenAtDispatch'[c] \subseteq {TRUE}
       /\ AbortSignal_aborted(c)' <=> calls'[c] >= 1
       /\ AbortSignal_aborted(c) => AbortSignal_aborted(c)']_vars

\* C10 witness: abort() was called again from a listener during the dispatch
\* on the same controller, and the event was dispatched once.
C10_Witness ==
  \E c \in Controllers :
    /\ reentered[c] /\ InDispatch(c)
    /\ calls[c] >= 2 /\ dispatched[c] = 1 /\ kAborted[c]

====
